---- MODULE Spec2Model ----
(***************************************************************************)
(* Model of the Discord shop bot of src/main.py: the webhook gateway       *)
(* (handle_interactions), the command and button handlers (balance, shop,  *)
(* BuyButton.callback, on_page_turn) and the ledger access layer           *)
(* (get_currency, update_currency, get_items) over the two worksheets of   *)
(* the spreadsheet "Currency_Shop_Database".                               *)
(*                                                                         *)
(* The spreadsheet is a remote store shared by every running invocation of *)
(* the webhook, so the unit of interleaving is one store call (find, cell, *)
(* get_all_values, update_cell).  Cell contents are text: a sequence of    *)
(* one-character strings; str and int are the conversions the code uses.   *)
(***************************************************************************)
EXTENDS Integers, Sequences, FiniteSets, TLC

VARIABLES
    currency_sheet,  \* worksheet "Currency": rows <<user_id text, balance text>>
    items_sheet,     \* worksheet "Items": rows of 0..5 cell texts
    pc,              \* per invocation: position inside handle_interactions
    req,             \* per invocation: the request being served
    loc,             \* per invocation: local variables of the running handler
    status,          \* per invocation: HTTP status answered (0 = none yet)
    reply,           \* per invocation: what was sent through i.response
    escaped,         \* per invocation: an exception left handle_interactions
    h,               \* per invocation: observations used by the properties
    served           \* number of requests received so far

vars == <<currency_sheet, items_sheet, pc, req, loc, status, reply, escaped, h, served>>

-----------------------------------------------------------------------------
(* Bounds of the model.                                                    *)

\* Requests received in one behaviour.
MaxRequests == 2

\* Concurrent invocations of the webhook.
Procs == {1, 2}

\* Discord user ids (i.author.id) of the users that send requests.
Users == {5, 7}

\* The balance a user's row holds in an initial ledger, when the user has one.
InitBalance == [u \in Users |-> IF u = 5 THEN 100 ELSE 5]

-----------------------------------------------------------------------------
(* Text and the conversions str() and int().                               *)

Digits == <<"0", "1", "2", "3", "4", "5", "6", "7", "8", "9">>

DigitSet == {Digits[i] : i \in 1..10}

DigitVal(c) == (CHOOSE i \in 1..10 : Digits[i] = c) - 1

RECURSIVE str(_)
str(n) ==
    IF n < 0 THEN <<"-">> \o str(0 - n)
    ELSE IF n < 10 THEN <<Digits[n + 1]>>
    ELSE str(n \div 10) \o <<Digits[(n % 10) + 1]>>

\* int(t) raises ValueError (TypeError for the None of an empty cell) unless
\* t is an optional sign followed by decimal digits.
int_ok(t) ==
    /\ t # <<>>
    /\ LET body == IF t[1] = "-" THEN Tail(t) ELSE t
       IN  /\ body # <<>>
           /\ \A i \in 1..Len(body) : body[i] \in DigitSet

RECURSIVE DigitsValue(_)
DigitsValue(t) ==
    IF t = <<>> THEN 0
    ELSE DigitsValue(SubSeq(t, 1, Len(t) - 1)) * 10 + DigitVal(t[Len(t)])

int(t) == IF t[1] = "-" THEN 0 - DigitsValue(Tail(t)) ELSE DigitsValue(t)

\* Python's None, distinct from every cell text.
None == <<"None">>

\* s[a:b] of Python, negative and out-of-range indices included.
PyIndex(i, n) ==
    IF i < 0 THEN (IF i + n < 0 THEN 0 ELSE i + n)
    ELSE IF i > n THEN n ELSE i

PySlice(s, a, b) ==
    LET lo == PyIndex(a, Len(s))
        hi == PyIndex(b, Len(s))
    IN  IF lo >= hi THEN <<>> ELSE SubSeq(s, lo + 1, hi)

-----------------------------------------------------------------------------
(* The worksheet operations of the store client that the code calls.       *)

NoCell == [row |-> 0, col |-> 0]

\* Worksheet.find(query): the first cell, in row-major order over the whole
\* sheet, whose text equals the query; None (NoCell) when there is none.
find(sheet, query) ==
    LET hits == {rc \in (1..Len(sheet)) \X (1..2) : sheet[rc[1]][rc[2]] = query}
    IN  IF hits = {} THEN NoCell
        ELSE LET r == CHOOSE x \in {rc[1] : rc \in hits} :
                          \A y \in {rc[1] : rc \in hits} : x <= y
                 c == CHOOSE x \in {rc[2] : rc \in {k \in hits : k[1] = r}} :
                          \A y \in {rc[2] : rc \in {k \in hits : k[1] = r}} : x <= y
             IN  [row |-> r, col |-> c]

\* Worksheet.cell(row, col).value
cell(sheet, row, col) == IF row \in 1..Len(sheet) THEN sheet[row][col] ELSE <<>>

\* Worksheet.get_all_values(): every row up to the last one holding data.
get_all_values(sheet) == sheet

\* Worksheet.update_cell(row, col, value): one cell is written, the sheet
\* growing by empty rows when the row lies below the data.
update_cell(sheet, row, col, value) ==
    LET padded == [r \in 1..(IF row > Len(sheet) THEN row ELSE Len(sheet)) |->
                      IF r <= Len(sheet) THEN sheet[r] ELSE <<<<>>, <<>>>>]
    IN  [padded EXCEPT ![row][col] = value]

-----------------------------------------------------------------------------
(* get_items: the rows of the Items sheet turned into item records.        *)

NoDescription ==
    <<"N", "o", " ", "d", "e", "s", "c", "r", "i", "p", "t", "i", "o", "n", " ",
      "a", "v", "a", "i", "l", "a", "b", "l", "e", ".">>

\* ItemOfRow with the 4th and 5th cells taken as they are when present.
ItemOfRowRaw(row) ==
    [name           |-> row[1],
     price          |-> int(row[2]),
     role_id        |-> int(row[3]),
     image_filename |-> IF Len(row) > 3 THEN row[4] ELSE None,
     description    |-> IF Len(row) > 4 THEN row[5] ELSE NoDescription]

\* The dict appended for one row of at least 3 columns.
ItemOfRow(row) ==
    [name           |-> row[1],
     price          |-> int(row[2]),
     role_id        |-> int(row[3]),
     image_filename |-> IF Len(row) > 3 /\ row[4] # <<>> THEN row[4] ELSE None,
     description    |-> IF Len(row) > 4 /\ row[5] # <<>> THEN row[5] ELSE NoDescription]

\* int(row[1]) or int(row[2]) raises for this row.
RowRaises(row) == Len(row) >= 3 /\ (~int_ok(row[2]) \/ ~int_ok(row[3]))

\* get_items() over the values get_all_values() returned: a row that raises
\* sends the whole call to the except clause, which returns [].
get_items(values) ==
    LET rows == PySlice(values, 1, Len(values))
        wide == SelectSeq(rows, LAMBDA row : Len(row) >= 3)
    IN  IF \E k \in 1..Len(wide) : RowRaises(wide[k]) THEN <<>>
        ELSE [k \in 1..Len(wide) |-> ItemOfRow(wide[k])]

-----------------------------------------------------------------------------
(* ShopView and BuyButton: the controls rendered for (items, page).        *)

items_per_page == 3

BuyPrefix == <<"b", "u", "y", "_">>
PrevPage == <<"p", "r", "e", "v", "_", "p", "a", "g", "e">>
NextPage == <<"n", "e", "x", "t", "_", "p", "a", "g", "e">>

\* BuyButton.__init__: custom_id buy_{role_id}, the item kept on the button.
BuyButton(item) == [custom_id |-> BuyPrefix \o str(item.role_id), item |-> item]

\* ShopView with total_pages rounded down instead of up.
ShopViewFloor(items, page) ==
    LET total_pages == Len(items) \div items_per_page
        start == page * items_per_page
        end == start + items_per_page
        shown == PySlice(items, start, end)
    IN  [page        |-> page,
         total_pages |-> total_pages,
         buy         |-> [k \in 1..Len(shown) |-> BuyButton(shown[k])],
         prev        |-> [custom_id |-> PrevPage \o <<"_">> \o str(page),
                          disabled  |-> page = 0],
         next        |-> [custom_id |-> NextPage \o <<"_">> \o str(page),
                          disabled  |-> page >= total_pages - 1]]

\* ShopView.__init__ and update_buttons.
ShopView(items, page) ==
    LET total_pages == (Len(items) + items_per_page - 1) \div items_per_page
        start == page * items_per_page
        end == start + items_per_page
        shown == PySlice(items, start, end)
    IN  [page        |-> page,
         total_pages |-> total_pages,
         buy         |-> [k \in 1..Len(shown) |-> BuyButton(shown[k])],
         prev        |-> [custom_id |-> PrevPage \o <<"_">> \o str(page),
                          disabled  |-> page = 0],
         next        |-> [custom_id |-> NextPage \o <<"_">> \o str(page),
                          disabled  |-> page >= total_pages - 1]]

NoView == [page |-> 0, total_pages |-> 0, buy |-> <<>>,
           prev |-> [custom_id |-> <<>>, disabled |-> TRUE],
           next |-> [custom_id |-> <<>>, disabled |-> TRUE]]

\* custom_id.split("_")[-1]: the text after the last underscore.
RECURSIVE LastField(_)
LastField(t) ==
    IF t = <<>> \/ t[Len(t)] = "_" THEN <<>>
    ELSE LastField(SubSeq(t, 1, Len(t) - 1)) \o <<t[Len(t)]>>

\* sub in t
Contains(t, sub) ==
    \E k \in 0..(Len(t) - Len(sub)) : SubSeq(t, k + 1, k + Len(sub)) = sub

-----------------------------------------------------------------------------
(* The sheets a behaviour may start from.                                  *)

CurrencyHeader ==
    << <<"u", "s", "e", "r", "_", "i", "d">>, <<"b", "a", "l", "a", "n", "c", "e">> >>

\* One row per distinct user, balances >= 0, below the header row: no user,
\* one user, or two users in either order.
InitLedgers ==
    LET Row(u) == <<str(u), str(InitBalance[u])>>
    IN  {<<CurrencyHeader>>}
        \cup {<<CurrencyHeader, Row(u)>> : u \in Users}
        \cup {<<CurrencyHeader, Row(uv[1]), Row(uv[2])>> :
                  uv \in {x \in Users \X Users : x[1] # x[2]}}

ItemsHeader ==
    << <<"n", "a", "m", "e">>, <<"p", "r", "i", "c", "e">>,
       <<"r", "o", "l", "e", "_", "i", "d">> >>

\* A catalog of seven items (three pages) and one row too short to be one;
\* the rows have 3, 4 and 5 columns, with empty and non-empty 4th and 5th cells.
Catalog ==
    << ItemsHeader,
       << <<"A">>, str(3), str(11) >>,
       << <<"B">>, str(60), str(12), <<"b", ".", "p", "n", "g">>, <<"g", "o", "l", "d">> >>,
       << <<"C">> >>,
       << <<"D">>, str(0), str(13), <<>>, <<>> >>,
       << <<"E">>, str(5), str(14) >>,
       << <<"F">>, str(5), str(15), <<"f", ".", "p", "n", "g">> >>,
       << <<"G">>, str(5), str(16), <<>>, <<"r", "e", "d">> >>,
       << <<"H">>, str(5), str(17), <<"h", ".", "p", "n", "g">>, <<>> >> >>

\* A catalog of two items (one page) below a row of two columns.
SmallCatalog ==
    << ItemsHeader,
       << <<"C">>, str(1) >>,
       << <<"A">>, str(3), str(11) >>,
       << <<"E">>, str(5), str(14) >> >>

\* The same catalog with a price that is no integer.
BadCatalog ==
    << ItemsHeader,
       << <<"A">>, str(3), str(11) >>,
       << <<"X">>, <<"t", "e", "n">>, str(18) >> >>

ItemSheets == {Catalog, SmallCatalog, BadCatalog}

\* The items a clicked buy control may carry: those of the first page of the
\* catalog (prices 3, 60 and 0; every price is >= 0).
ClickItems == {b.item : b \in {ShopView(get_items(Catalog), 0).buy[k] : k \in 1..3}}

NoItem == [name |-> <<>>, price |-> 0, role_id |-> 0,
           image_filename |-> None, description |-> NoDescription]

\* custom ids of page controls: the enabled ones of the rendered pages 0, 1
\* and 2 of the catalog, and a forged one.
PageTags ==
    {ShopView(get_items(Catalog), 0).next.custom_id,
     ShopView(get_items(Catalog), 1).prev.custom_id,
     ShopView(get_items(Catalog), 1).next.custom_id,
     ShopView(get_items(Catalog), 2).prev.custom_id,
     NextPage \o <<"_", "x">>}

-----------------------------------------------------------------------------
(* Requests to POST /interactions.                                         *)

\* json: the body parses as JSON; sig, ts: the two signature headers are
\* present; verified: the signature verifies.
Request(kind, user, item, custom_id) ==
    [kind |-> kind, user |-> user, item |-> item, custom_id |-> custom_id,
     json |-> TRUE, sig |-> TRUE, ts |-> TRUE, verified |-> TRUE]

\* on_page_turn never reads the clicking user, and a request the gateway turns
\* away never reaches a handler: one user stands for all in both.
FirstUser == CHOOSE u \in Users : \A v \in Users : u <= v

Commands ==
    {Request("balance", u, NoItem, <<>>) : u \in Users}
    \cup {Request("shop", u, NoItem, <<>>) : u \in Users}

Clicks ==
    {Request("buy", u, it, BuyButton(it).custom_id) : u \in Users, it \in ClickItems}
    \cup {Request("page", FirstUser, NoItem, t) : t \in PageTags}

\* Requests the gateway turns away: a purchase click of a free item with at
\* most one header, with a body that is no JSON, or with a signature that does
\* not verify.
Rejected ==
    {[Request("buy", FirstUser, it, BuyButton(it).custom_id)
         EXCEPT !.json = j, !.sig = st[1], !.ts = st[2], !.verified = FALSE] :
        it \in {x \in ClickItems : x.price = 0}, j \in BOOLEAN,
        st \in {<<TRUE, TRUE>>, <<FALSE, TRUE>>, <<TRUE, FALSE>>}}

Requests == Commands \cup Clicks \cup Rejected

-----------------------------------------------------------------------------
(* State of one invocation.                                                *)

NoReply == [msg |-> "none", value |-> 0, view |-> NoView, page_field |-> <<0, 0>>]

NoLocals ==
    [cell |-> NoCell, next_row |-> 0, new_balance |-> 0, view |-> NoView,
     out |-> NoReply]

NoHistory(sheet) ==
    [req_sheet |-> sheet, call_sheet |-> sheet, solo_req |-> TRUE, solo_call |-> TRUE,
     routed |-> FALSE, touched |-> FALSE, faulted |-> FALSE,
     raised |-> FALSE, returned |-> "none", balance |-> 0, updated |-> FALSE,
     fault_in |-> "none", items |-> <<>>, on_enabled |-> FALSE]

NoRequest == Request("none", 0, NoItem, <<>>)

Init ==
    /\ currency_sheet \in InitLedgers
    /\ items_sheet \in ItemSheets
    /\ pc = [p \in Procs |-> "idle"]
    /\ req = [p \in Procs |-> NoRequest]
    /\ loc = [p \in Procs |-> NoLocals]
    /\ status = [p \in Procs |-> 0]
    /\ reply = [p \in Procs |-> NoReply]
    /\ escaped = [p \in Procs |-> FALSE]
    /\ h = [p \in Procs |-> NoHistory(<<>>)]
    /\ served = 0

-----------------------------------------------------------------------------
(* The handlers, continued after each call into the access layer.  Each    *)
(* operator gives the invocation's next position, its locals and whether   *)
(* a new access-layer call starts there.                                   *)

Reply(msg, value, view, page_field) ==
    [msg |-> msg, value |-> value, view |-> view, page_field |-> page_field]

\* AfterGetCurrency with the funds check of BuyButton.callback left out.
AfterGetCurrencyUnchecked(p, ret) ==
    LET l == loc[p]
        seen == [h[p] EXCEPT !.returned = "get_currency", !.balance = ret]
    IN  CASE req[p].kind = "balance" ->
                 [pc |-> "send", call |-> FALSE, hist |-> seen,
                  loc |-> [l EXCEPT !.out = Reply("balance", ret, NoView, <<0, 0>>)]]
          [] req[p].kind = "shop" ->
                 [pc |-> "send", call |-> FALSE, hist |-> seen,
                  loc |-> [l EXCEPT !.out =
                              Reply("shop", ret, l.view, <<1, l.view.total_pages>>)]]
          [] OTHER ->
                 [pc |-> "update_currency_find", call |-> TRUE, hist |-> seen,
                  loc |-> [l EXCEPT !.new_balance = ret - req[p].item.price]]

\* balance, shop and BuyButton.callback after get_currency returned ret.
AfterGetCurrency(p, ret) ==
    LET l == loc[p]
        price == req[p].item.price
        seen == [h[p] EXCEPT !.returned = "get_currency", !.balance = ret]
    IN  CASE req[p].kind = "balance" ->
                 [pc |-> "send", call |-> FALSE, hist |-> seen,
                  loc |-> [l EXCEPT !.out = Reply("balance", ret, NoView, <<0, 0>>)]]
          [] req[p].kind = "shop" ->
                 [pc |-> "send", call |-> FALSE, hist |-> seen,
                  loc |-> [l EXCEPT !.out =
                              Reply("shop", ret, l.view, <<1, l.view.total_pages>>)]]
          [] OTHER ->
                 IF ret >= price
                 THEN [pc |-> "update_currency_find", call |-> TRUE, hist |-> seen,
                       loc |-> [l EXCEPT !.new_balance = ret - price]]
                 ELSE [pc |-> "send", call |-> FALSE, hist |-> seen,
                       loc |-> [l EXCEPT !.out = Reply("rejected", 0, NoView, <<0, 0>>)]]

\* BuyButton.callback after update_currency returned: the result is dropped
\* and the success message is sent.
AfterUpdateCurrency(p, ok) ==
    [pc |-> "send", call |-> FALSE,
     hist |-> [h[p] EXCEPT !.returned = "update_currency", !.updated = ok],
     loc |-> [loc[p] EXCEPT !.out = Reply("success", 0, NoView, <<0, 0>>)]]

\* shop and on_page_turn after get_items returned items.
AfterGetItems(p, items) ==
    LET l == loc[p]
        seen == [h[p] EXCEPT !.returned = "get_items", !.items = items]
    IN  IF req[p].kind = "shop"
        THEN IF items = <<>>
             THEN [pc |-> "send", call |-> FALSE, hist |-> seen,
                   loc |-> [l EXCEPT !.out = Reply("empty", 0, NoView, <<0, 0>>)]]
             ELSE [pc |-> "get_currency_find", call |-> TRUE, hist |-> seen,
                   loc |-> [l EXCEPT !.view = ShopView(items, 0)]]
        ELSE LET page == int(LastField(req[p].custom_id))
                 direction == IF Contains(req[p].custom_id, <<"n", "e", "x", "t">>)
                              THEN 1 ELSE 0 - 1
                 new_page == page + direction
                 view == ShopView(items, new_page)
             IN  [pc |-> "send", call |-> FALSE, hist |-> seen,
                  loc |-> [l EXCEPT !.view = view,
                                    !.out = Reply("page", 0, view,
                                                  <<new_page + 1, view.total_pages>>)]]

\* The access-layer function a position belongs to.
FunctionAt(label) ==
    CASE label \in {"get_currency_find", "get_currency_cell", "get_currency_count",
                    "get_currency_write_id", "get_currency_write_balance"}
              -> "get_currency"
      [] label \in {"update_currency_find", "update_currency_write"}
              -> "update_currency"
      [] label = "get_items_read" -> "get_items"
      [] OTHER -> "none"

\* What the other invocations and this one observe of a step of p: store says
\* the step was a store call ("read", "write" or "none"), call that an
\* access-layer call starts after it, fault that the store call raised (and
\* fault_in the function whose store call raised last).
Observe(p, hist, store, call, fault) ==
    [q \in Procs |->
        IF q = p
        THEN [hist EXCEPT !.touched = @ \/ store # "none" \/ fault,
                          !.faulted = @ \/ fault,
                          !.fault_in = IF fault THEN FunctionAt(pc[p]) ELSE @,
                          !.call_sheet = IF call THEN currency_sheet' ELSE @,
                          !.solo_call = IF call THEN TRUE ELSE @]
        ELSE IF store = "write" /\ pc[q] # "idle"
             THEN [h[q] EXCEPT !.solo_req = FALSE, !.solo_call = FALSE]
             ELSE h[q]]

\* One step of p inside a handler: the sheet after it and where p goes.
Step(p, sheet, nxt, store, fault) ==
    /\ currency_sheet' = sheet
    /\ pc' = [pc EXCEPT ![p] = nxt.pc]
    /\ loc' = [loc EXCEPT ![p] = nxt.loc]
    /\ h' = Observe(p, nxt.hist, store, nxt.call, fault)
    /\ UNCHANGED <<items_sheet, req, status, reply, escaped, served>>

Goto(p, label) == [pc |-> label, call |-> FALSE, hist |-> h[p], loc |-> loc[p]]

-----------------------------------------------------------------------------
(* get_currency(user_id), one action per store call.                       *)

\* cell = currency_sheet.find(str(user_id))
get_currency_find(p) ==
    /\ pc[p] = "get_currency_find"
    /\ LET found == find(currency_sheet, str(req[p].user))
       IN  Step(p, currency_sheet,
                [Goto(p, IF found # NoCell THEN "get_currency_cell"
                                           ELSE "get_currency_count")
                    EXCEPT !.loc.cell = found],
                "read", FALSE)

\* return int(currency_sheet.cell(cell.row, 2).value); a value int() rejects
\* raises into the except clause, which returns 0.
get_currency_cell(p) ==
    /\ pc[p] = "get_currency_cell"
    /\ LET value == cell(currency_sheet, loc[p].cell.row, 2)
       IN  Step(p, currency_sheet,
                AfterGetCurrency(p, IF int_ok(value) THEN int(value) ELSE 0),
                "read", FALSE)

\* get_currency_count with next_row = len(currency_sheet.get_all_values()),
\* the last row in use.
get_currency_countLast(p) ==
    /\ pc[p] = "get_currency_count"
    /\ Step(p, currency_sheet,
            [Goto(p, "get_currency_write_id")
                EXCEPT !.loc.next_row = Len(get_all_values(currency_sheet))],
            "read", FALSE)

\* next_row = len(currency_sheet.get_all_values()) + 1
get_currency_count(p) ==
    /\ pc[p] = "get_currency_count"
    /\ Step(p, currency_sheet,
            [Goto(p, "get_currency_write_id")
                EXCEPT !.loc.next_row = Len(get_all_values(currency_sheet)) + 1],
            "read", FALSE)

\* currency_sheet.update_cell(next_row, 1, str(user_id))
get_currency_write_id(p) ==
    /\ pc[p] = "get_currency_write_id"
    /\ Step(p, update_cell(currency_sheet, loc[p].next_row, 1, str(req[p].user)),
            Goto(p, "get_currency_write_balance"), "write", FALSE)

\* currency_sheet.update_cell(next_row, 2, "0"); return 0
get_currency_write_balance(p) ==
    /\ pc[p] = "get_currency_write_balance"
    /\ Step(p, update_cell(currency_sheet, loc[p].next_row, 2, <<"0">>),
            AfterGetCurrency(p, 0), "write", FALSE)

-----------------------------------------------------------------------------
(* update_currency(user_id, amount), called with amount = new_balance.     *)

\* cell = currency_sheet.find(str(user_id)); return False when there is none
update_currency_find(p) ==
    /\ pc[p] = "update_currency_find"
    /\ LET found == find(currency_sheet, str(req[p].user))
       IN  Step(p, currency_sheet,
                IF found # NoCell
                THEN [Goto(p, "update_currency_write") EXCEPT !.loc.cell = found]
                ELSE [AfterUpdateCurrency(p, FALSE) EXCEPT !.loc.cell = found],
                "read", FALSE)

\* currency_sheet.update_cell(cell.row, 2, str(amount)); return True
update_currency_write(p) ==
    /\ pc[p] = "update_currency_write"
    /\ Step(p, update_cell(currency_sheet, loc[p].cell.row, 2, str(loc[p].new_balance)),
            AfterUpdateCurrency(p, TRUE), "write", FALSE)

-----------------------------------------------------------------------------
(* get_items(): one store call, then the parse.                            *)

get_items_read(p) ==
    /\ pc[p] = "get_items_read"
    /\ Step(p, currency_sheet, AfterGetItems(p, get_items(get_all_values(items_sheet))),
            "read", FALSE)

\* StoreFault without the except clauses of the access layer: what the store
\* call raises leaves the function and the handler and is answered 500.
StoreFaultUncaught(p) ==
    /\ FunctionAt(pc[p]) # "none"
    /\ pc' = [pc EXCEPT ![p] = "done"]
    /\ status' = [status EXCEPT ![p] = 500]
    /\ loc' = [loc EXCEPT ![p] = NoLocals]
    /\ h' = [h EXCEPT ![p].raised = TRUE, ![p].faulted = TRUE,
                      ![p].fault_in = FunctionAt(pc[p])]
    /\ UNCHANGED <<currency_sheet, items_sheet, req, reply, escaped, served>>

\* A store call of the access layer raises (the backend is unreachable, a
\* quota is exceeded): the except clause of the function p is in returns
\* its default, 0, False or [].
StoreFault(p) ==
    \/ /\ pc[p] \in {"get_currency_find", "get_currency_cell", "get_currency_count",
                     "get_currency_write_id", "get_currency_write_balance"}
       /\ Step(p, currency_sheet, AfterGetCurrency(p, 0), "none", TRUE)
    \/ /\ pc[p] \in {"update_currency_find", "update_currency_write"}
       /\ Step(p, currency_sheet, AfterUpdateCurrency(p, FALSE), "none", TRUE)
    \/ /\ pc[p] = "get_items_read"
       /\ Step(p, currency_sheet, AfterGetItems(p, <<>>), "none", TRUE)

-----------------------------------------------------------------------------
(* The gateway: handle_interactions and the dispatch of process_request.    *)

\* app.process_request(data, signature, timestamp): the signature is verified
\* and the interaction routed by command name or custom id prefix to its
\* handler, which runs up to its first store call.  A failed verification, or
\* int() failing on the page tag in on_page_turn, raises.
process_request(r) ==
    IF ~r.verified THEN [pc |-> "done", status |-> 500, routed |-> FALSE, raised |-> TRUE]
    ELSE CASE r.kind \in {"balance", "buy"} ->
                  [pc |-> "get_currency_find", status |-> 0, routed |-> TRUE, raised |-> FALSE]
           [] r.kind = "shop" ->
                  [pc |-> "get_items_read", status |-> 0, routed |-> TRUE, raised |-> FALSE]
           [] OTHER ->
                  IF int_ok(LastField(r.custom_id))
                  THEN [pc |-> "get_items_read", status |-> 0, routed |-> TRUE, raised |-> FALSE]
                  ELSE [pc |-> "done", status |-> 500, routed |-> TRUE, raised |-> TRUE]

\* custom_id is the tag of a page control that view shows enabled.
EnabledIn(view, custom_id) ==
    /\ view # NoView
    /\ \/ ~view.prev.disabled /\ view.prev.custom_id = custom_id
       \/ ~view.next.disabled /\ view.next.custom_id = custom_id

\* The click r is made on an enabled page control of a message that was sent
\* by a shop command or by a page turn that was itself such a click.
OnEnabledControl(r) ==
    /\ r.kind = "page"
    /\ \E q \in Procs :
          /\ pc[q] = "done"
          /\ status[q] = 200
          /\ req[q].kind = "shop" \/ h[q].on_enabled
          /\ EnabledIn(reply[q].view, r.custom_id)

\* handle_interactions up to the first store call of the routed handler, run
\* by the first free invocation.  The body is parsed first: request.json()
\* raising leaves the function, and the server answers 500.  Then a missing
\* header answers 401.  Then process_request runs inside the try; what it
\* raises is answered 500.  Answers given earlier are forgotten.
handle_interactions(p) ==
    /\ pc[p] \in {"idle", "done"}
    /\ \A q \in Procs : q < p => pc[q] \notin {"idle", "done"}
    /\ served < MaxRequests
    /\ \E r \in Requests :
          LET free == {q \in Procs : pc[q] \in {"idle", "done"}}
              got == IF ~r.json
                     THEN [pc |-> "done", status |-> 500, routed |-> FALSE, raised |-> FALSE]
                     ELSE IF ~r.sig \/ ~r.ts
                          THEN [pc |-> "done", status |-> 401, routed |-> FALSE,
                                raised |-> FALSE]
                          ELSE process_request(r)
          IN  /\ req' = [q \in Procs |-> IF q = p THEN r
                                         ELSE IF q \in free THEN NoRequest ELSE req[q]]
              /\ pc' = [q \in Procs |-> IF q = p THEN got.pc
                                        ELSE IF q \in free THEN "idle" ELSE pc[q]]
              /\ status' = [q \in Procs |-> IF q = p THEN got.status
                                            ELSE IF q \in free THEN 0 ELSE status[q]]
              /\ escaped' = [q \in Procs |-> IF q = p THEN ~r.json
                                             ELSE IF q \in free THEN FALSE ELSE escaped[q]]
              /\ reply' = [q \in Procs |-> IF q \in free THEN NoReply ELSE reply[q]]
              /\ h' = [q \in Procs |->
                         IF q = p THEN [NoHistory(currency_sheet) EXCEPT
                                           !.routed = got.routed, !.raised = got.raised,
                                           !.on_enabled = OnEnabledControl(r)]
                         ELSE IF q \in free THEN NoHistory(<<>>) ELSE h[q]]
    /\ served' = served + 1
    /\ UNCHANGED <<currency_sheet, items_sheet, loc>>

\* i.response.send / update_message goes out, the handler and process_request
\* return, handle_interactions answers 200.
send(p) ==
    /\ pc[p] = "send"
    /\ pc' = [pc EXCEPT ![p] = "done"]
    /\ reply' = [reply EXCEPT ![p] = loc[p].out]
    /\ status' = [status EXCEPT ![p] = 200]
    /\ loc' = [loc EXCEPT ![p] = NoLocals]
    /\ UNCHANGED <<currency_sheet, items_sheet, req, escaped, h, served>>

\* The send raises (the reply cannot be delivered): the exception reaches the
\* except clause of handle_interactions, which answers 500.
SendFault(p) ==
    /\ pc[p] = "send"
    /\ pc' = [pc EXCEPT ![p] = "done"]
    /\ status' = [status EXCEPT ![p] = 500]
    /\ loc' = [loc EXCEPT ![p] = NoLocals]
    /\ h' = [h EXCEPT ![p].raised = TRUE]
    /\ UNCHANGED <<currency_sheet, items_sheet, req, reply, escaped, served>>

-----------------------------------------------------------------------------
(* Specifications.                                                         *)

Next ==
    \E p \in Procs :
        \/ handle_interactions(p)
        \/ get_currency_find(p)
        \/ get_currency_cell(p)
        \/ get_currency_count(p)
        \/ get_currency_write_id(p)
        \/ get_currency_write_balance(p)
        \/ update_currency_find(p)
        \/ update_currency_write(p)
        \/ get_items_read(p)
        \/ send(p)

\* Every store call answers and every reply is delivered.
Spec == Init /\ [][Next]_vars

NextFault == Next \/ \E p \in Procs : StoreFault(p) \/ SendFault(p)

\* Store calls and sends may raise.
SpecFault == Init /\ [][NextFault]_vars

\* The Items sheet is edited from outside while no request is being served
\* (get_items reads it in one store call, so an edit during a request is
\* seen by the request as an edit before or after it).
EditItems ==
    /\ \A p \in Procs : pc[p] \in {"idle", "done"}
    /\ items_sheet' \in ItemSheets \ {items_sheet}
    /\ UNCHANGED <<currency_sheet, pc, req, loc, status, reply, escaped, h, served>>

NextEdit == Next \/ EditItems

\* The catalog may change between requests.
SpecEdit == Init /\ [][NextEdit]_vars

-----------------------------------------------------------------------------
(* Reading a ledger.                                                       *)

\* The rows below the header whose user_id cell holds u.
UserRows(sheet, u) == {r \in 2..Len(sheet) : sheet[r][1] = str(u)}

HasRow(sheet, u) == UserRows(sheet, u) # {}

TheRow(sheet, u) == CHOOSE r \in UserRows(sheet, u) : TRUE

\* u has one row and its balance cell holds an integer.
Known(sheet, u) ==
    /\ Cardinality(UserRows(sheet, u)) = 1
    /\ int_ok(sheet[TheRow(sheet, u)][2])

StoredBalance(sheet, u) == int(sheet[TheRow(sheet, u)][2])

IsPurchase(p) == req[p].kind = "buy" /\ h[p].routed

\* get_currency has just returned to a handler that replies next, and no
\* other invocation wrote the sheet during the call.
GetCurrencyReturned(p) ==
    /\ pc[p] = "send"
    /\ h[p].returned = "get_currency"
    /\ h[p].solo_call

\* update_currency has just returned, and no other invocation wrote the
\* sheet during the call.
UpdateCurrencyReturned(p) ==
    /\ pc[p] = "send"
    /\ h[p].returned = "update_currency"
    /\ h[p].solo_call

-----------------------------------------------------------------------------
(* Properties.                                                             *)

\* C1: when two purchase clicks of one user for an item of price p both
\* start from the stored balance b, p <= b < 2p (so they run concurrently),
\* at most one of them replies with the success message.
C1_AtMostOneSuccess ==
    \A p \in Procs : \A q \in Procs \ {p} :
        ~ /\ IsPurchase(p) /\ IsPurchase(q)
          /\ req[p].user = req[q].user
          /\ req[p].item = req[q].item
          /\ Known(h[p].req_sheet, req[p].user)
          /\ Known(h[q].req_sheet, req[q].user)
          /\ StoredBalance(h[p].req_sheet, req[p].user)
                 = StoredBalance(h[q].req_sheet, req[q].user)
          /\ req[p].item.price <= StoredBalance(h[p].req_sheet, req[p].user)
          /\ StoredBalance(h[p].req_sheet, req[p].user) < 2 * req[p].item.price
          /\ reply[p].msg = "success"
          /\ reply[q].msg = "success"

\* C2: every balance cell below the header is empty (a row being created) or
\* holds an integer >= 0, in every reachable state.
C2_BalancesNonNegative ==
    \A r \in 2..Len(currency_sheet) :
        \/ currency_sheet[r][2] = <<>>
        \/ /\ int_ok(currency_sheet[r][2])
           /\ int(currency_sheet[r][2]) >= 0

\* Two purchases of the item of price 60 by the user of balance 100 have both
\* replied success, and the balance they left is 40.
C2_Witness ==
    \E p \in Procs : \E q \in Procs \ {p} :
        /\ IsPurchase(p) /\ IsPurchase(q)
        /\ req[p].user = req[q].user
        /\ req[p].item.price = 60 /\ req[q].item.price = 60
        /\ reply[p].msg = "success" /\ reply[q].msg = "success"
        /\ Known(currency_sheet, req[p].user)
        /\ StoredBalance(currency_sheet, req[p].user) = 40

\* C3: a purchase click during which no other invocation wrote the sheet, by
\* a user whose row held balance b when the click arrived: if b >= price the
\* sheet is the one at arrival with that balance cell set to b - price and the
\* reply is the success message; if b < price the reply is the rejection and
\* the sheet is the one at arrival.
C3_PurchaseAlone ==
    \A p \in Procs :
        (/\ pc[p] = "done" /\ status[p] = 200
         /\ IsPurchase(p)
         /\ h[p].solo_req
         /\ Known(h[p].req_sheet, req[p].user))
        => LET before == h[p].req_sheet
               u == req[p].user
               b == StoredBalance(before, u)
               price == req[p].item.price
           IN  IF b >= price
               THEN /\ reply[p].msg = "success"
                    /\ currency_sheet =
                           [before EXCEPT ![TheRow(before, u)][2] = str(b - price)]
               ELSE /\ reply[p].msg = "rejected"
                    /\ currency_sheet = before

\* C4: get_currency(user_id) for a user_id without a row returns 0 and leaves
\* the sheet it found with one row appended, <<user_id, "0">>.
C4_UnknownUserCreated ==
    \A p \in Procs :
        (GetCurrencyReturned(p) /\ ~HasRow(h[p].call_sheet, req[p].user))
        => /\ h[p].balance = 0
           /\ currency_sheet = Append(h[p].call_sheet, <<str(req[p].user), <<"0">>>>)

\* C5: after every step the sheet holds at most one row per user_id, and no
\* step replaces the user_id of a row by another user's.
C5_OneRowPerUser ==
    [][/\ \A u \in Users : Cardinality(UserRows(currency_sheet', u)) <= 1
       /\ \A r \in 2..Len(currency_sheet) :
              currency_sheet[r][1] # <<>> => currency_sheet'[r][1] = currency_sheet[r][1]
      ]_vars

\* C6: get_currency(user_id) for a user_id whose row holds balance b returns b
\* and leaves the sheet as it found it.
C6_KnownUserRead ==
    \A p \in Procs :
        (GetCurrencyReturned(p) /\ Known(h[p].call_sheet, req[p].user))
        => /\ h[p].balance = StoredBalance(h[p].call_sheet, req[p].user)
           /\ currency_sheet = h[p].call_sheet

\* C7: update_currency(user_id, amount): with a row for user_id, that row's
\* balance cell becomes str(amount), nothing else changes and the result is
\* True; without one the result is False and the sheet is as it was found.
C7_UpdateCurrencyFrame ==
    \A p \in Procs :
        UpdateCurrencyReturned(p)
        => LET before == h[p].call_sheet
               u == req[p].user
           IN  IF HasRow(before, u)
               THEN /\ h[p].updated
                    /\ Cardinality(UserRows(before, u)) = 1
                    /\ currency_sheet =
                           [before EXCEPT ![TheRow(before, u)][2] = str(loc[p].new_balance)]
               ELSE /\ ~h[p].updated
                    /\ currency_sheet = before

\* C8: a request lacking one of the two signature headers is answered 401,
\* whatever its body, with no handler run and no store call made.
C8_MissingHeader401 ==
    \A p \in Procs :
        (pc[p] = "done" /\ req[p].kind # "none" /\ (~req[p].sig \/ ~req[p].ts))
        => /\ status[p] = 401
           /\ ~h[p].routed
           /\ ~h[p].touched

\* C9: a request carrying both headers ends with status 500 when verification
\* or the routed handler raised and 200 otherwise, and no exception leaves
\* handle_interactions.
C9_OneTerminalResponse ==
    \A p \in Procs :
        (pc[p] = "done" /\ req[p].kind # "none" /\ req[p].sig /\ req[p].ts)
        => /\ ~escaped[p]
           /\ status[p] = IF h[p].raised THEN 500 ELSE 200

\* The invocation that takes the step.
Acts(p) == pc'[p] # pc[p] \/ h'[p] # h[p]

\* C10: a step that lowers the balance of a user's row is the update_currency
\* write of a purchase click by that user, which read a balance >= the price;
\* and no step of /balance, /shop or the page-turn handler changes the
\* balance of a row that holds one.
C10_OnlyPurchasesDebit ==
    [][/\ \A u \in Users : \A r \in UserRows(currency_sheet, u) :
              (/\ int_ok(currency_sheet[r][2])
               /\ int_ok(currency_sheet'[r][2])
               /\ int(currency_sheet'[r][2]) < int(currency_sheet[r][2]))
              => \E p \in Procs :
                    /\ pc[p] = "update_currency_write" /\ Acts(p)
                    /\ IsPurchase(p)
                    /\ req[p].user = u
                    /\ h[p].balance >= req[p].item.price
       /\ \A p \in Procs :
              (Acts(p) /\ req[p].kind \in {"balance", "shop", "page"})
              => \A r \in 2..Len(currency_sheet) :
                    int_ok(currency_sheet[r][2])
                    => currency_sheet'[r][2] = currency_sheet[r][2]
      ]_vars

-----------------------------------------------------------------------------
(* What holds of the same operations on a sheet where find(str(user_id))   *)
(* lands on the user's own user_id cell, or on nothing when the user has   *)
(* no row, and every store call answers (Spec).                            *)

FindIsExact(sheet, u) ==
    find(sheet, str(u)) =
        IF HasRow(sheet, u) THEN [row |-> TheRow(sheet, u), col |-> 1] ELSE NoCell

\* The purchase property, for clicks of a user that find lands exactly on.
PurchaseAloneExact ==
    \A p \in Procs :
        (/\ pc[p] = "done" /\ status[p] = 200
         /\ IsPurchase(p)
         /\ h[p].solo_req
         /\ Known(h[p].req_sheet, req[p].user)
         /\ FindIsExact(h[p].req_sheet, req[p].user))
        => LET before == h[p].req_sheet
               u == req[p].user
               b == StoredBalance(before, u)
               price == req[p].item.price
           IN  IF b >= price
               THEN /\ reply[p].msg = "success"
                    /\ currency_sheet =
                           [before EXCEPT ![TheRow(before, u)][2] = str(b - price)]
               ELSE /\ reply[p].msg = "rejected"
                    /\ currency_sheet = before

\* get_currency for a user without a row, whose id is in no cell.
UnknownUserCreatedExact ==
    \A p \in Procs :
        (/\ GetCurrencyReturned(p)
         /\ ~HasRow(h[p].call_sheet, req[p].user)
         /\ FindIsExact(h[p].call_sheet, req[p].user))
        => /\ h[p].balance = 0
           /\ currency_sheet = Append(h[p].call_sheet, <<str(req[p].user), <<"0">>>>)

\* get_currency for a user with a row that find lands on.
KnownUserReadExact ==
    \A p \in Procs :
        (/\ GetCurrencyReturned(p)
         /\ Known(h[p].call_sheet, req[p].user)
         /\ FindIsExact(h[p].call_sheet, req[p].user))
        => /\ h[p].balance = StoredBalance(h[p].call_sheet, req[p].user)
           /\ currency_sheet = h[p].call_sheet

\* update_currency when find lands on the user's own cell or on nothing.
UpdateCurrencyFrameExact ==
    \A p \in Procs :
        (UpdateCurrencyReturned(p) /\ FindIsExact(h[p].call_sheet, req[p].user))
        => LET before == h[p].call_sheet
               u == req[p].user
           IN  IF HasRow(before, u)
               THEN /\ h[p].updated
                    /\ currency_sheet =
                           [before EXCEPT ![TheRow(before, u)][2] = str(loc[p].new_balance)]
               ELSE /\ ~h[p].updated
                    /\ currency_sheet = before

\* Debits in a sheet where find is exact for every user.
OnlyPurchasesDebitExact ==
    [][(\A v \in Users : FindIsExact(currency_sheet, v))
       => \A u \in Users : \A r \in UserRows(currency_sheet, u) :
              (/\ int_ok(currency_sheet[r][2])
               /\ int_ok(currency_sheet'[r][2])
               /\ int(currency_sheet'[r][2]) < int(currency_sheet[r][2]))
              => \E p \in Procs :
                    /\ pc[p] = "update_currency_write" /\ Acts(p)
                    /\ IsPurchase(p)
                    /\ req[p].user = u
                    /\ h[p].balance >= req[p].item.price
      ]_vars

-----------------------------------------------------------------------------
(* Failures inside the access layer.                                       *)

\* A store call of p raises in this step.
FaultStep(p) == h'[p].fault_in # "none" /\ h'[p].fault_in # h[p].fault_in

\* Some row of the Items sheet below the header has at least 3 columns and a
\* price or role_id that int() rejects.
HasBadRow(values) ==
    \E k \in 2..Len(values) : RowRaises(values[k])

\* C11: a store call that raises inside get_currency, update_currency or
\* get_items does not reach the caller: the function returns 0, False or the
\* empty list and the handler goes on; get_items also returns the empty list
\* when one row of at least 3 columns has a non-integer price or role_id.
C11_FaultsReturnDefaults ==
    [][\A p \in Procs :
          /\ FaultStep(p)
             => /\ ~h'[p].raised
                /\ status'[p] = 0
                /\ pc'[p] \notin {"idle", "done"}
                /\ h'[p].returned = h'[p].fault_in
                /\ h'[p].fault_in = "get_currency" => h'[p].balance = 0
                /\ h'[p].fault_in = "update_currency" => ~h'[p].updated
                /\ h'[p].fault_in = "get_items" => h'[p].items = <<>>
          /\ (pc[p] = "get_items_read" /\ pc'[p] # pc[p] /\ HasBadRow(items_sheet))
             => /\ ~h'[p].raised
                /\ status'[p] = 0
                /\ h'[p].returned = "get_items"
                /\ h'[p].items = <<>>
      ]_vars

\* One invocation had a store call of get_currency raise while another got
\* the result of get_items over a sheet with a non-integer price.
C11_Witness ==
    \E p \in Procs, q \in Procs :
        /\ h[p].fault_in = "get_currency"
        /\ h[q].returned = "get_items"
        /\ ~h[q].faulted
        /\ HasBadRow(items_sheet)

-----------------------------------------------------------------------------
(* The rendered view.                                                      *)

\* The view invocation p has built or sent.
ViewOf(p) == IF pc[p] = "done" THEN reply[p].view ELSE loc[p].view

\* Number of items a page p >= 0 of n items shows.
ShownCount(n, p) ==
    IF n - 3 * p <= 0 THEN 0 ELSE IF n - 3 * p >= 3 THEN 3 ELSE n - 3 * p

\* C12: the view built from items for page p has ceil(len(items)/3) pages,
\* one buy control buy_{role_id} per item of items[3p : 3p+3] in order, a
\* previous control prev_page_{p} disabled exactly when p = 0 and a next
\* control next_page_{p} disabled exactly when p >= total_pages - 1; seven
\* items give 3 pages, page 0 with items 1-3, previous disabled and next
\* enabled, page 2 with item 7 alone and next disabled.
C12_ShopViewControls ==
    \A p \in Procs :
        LET v == ViewOf(p)
            items == h[p].items
            n == Len(items)
            pg == v.page
        IN  (v # NoView /\ pg >= 0)
            => /\ 3 * v.total_pages >= n
               /\ 3 * (v.total_pages - 1) < n
               /\ Len(v.buy) = ShownCount(n, pg)
               /\ \A k \in 1..Len(v.buy) :
                     /\ v.buy[k].item = items[3 * pg + k]
                     /\ v.buy[k].custom_id
                            = <<"b", "u", "y", "_">> \o str(items[3 * pg + k].role_id)
               /\ v.prev.custom_id
                      = <<"p", "r", "e", "v", "_", "p", "a", "g", "e", "_">> \o str(pg)
               /\ v.prev.disabled <=> (pg = 0)
               /\ v.next.custom_id
                      = <<"n", "e", "x", "t", "_", "p", "a", "g", "e", "_">> \o str(pg)
               /\ v.next.disabled <=> (pg >= v.total_pages - 1)
               /\ n = 7
                  => /\ v.total_pages = 3
                     /\ pg = 0 => /\ Len(v.buy) = 3
                                  /\ v.prev.disabled
                                  /\ ~v.next.disabled
                     /\ pg = 2 => /\ Len(v.buy) = 1
                                  /\ v.buy[1].item = items[7]
                                  /\ v.next.disabled

\* The last page of seven items has been sent with its single buy control.
C12_Witness ==
    \E p \in Procs :
        /\ pc[p] = "done"
        /\ Len(h[p].items) = 7
        /\ reply[p].view.page = 2
        /\ Len(reply[p].view.buy) = 1

-----------------------------------------------------------------------------
(* The items read from the Items sheet.                                    *)

\* get_items has returned to the handler of p.
GetItemsReturned(p) ==
    /\ req[p].kind \in {"shop", "page"}
    /\ h[p].returned # "none"
    /\ h[p].fault_in # "get_items"

\* Positions of the rows below the header that have at least 3 columns.
WideRows(values) == {k \in 2..Len(values) : Len(values[k]) >= 3}

\* The j-th of them, in sheet order.
NthWideRow(values, j) ==
    CHOOSE k \in WideRows(values) :
        Cardinality({i \in WideRows(values) : i <= k}) = j

\* items holds one item per row of at least 3 columns below the header, in
\* row order, with the defaults for a missing or empty 4th and 5th cell.
ItemsMatchRows(items, values) ==
    /\ Len(items) = Cardinality(WideRows(values))
    /\ \A j \in 1..Len(items) :
          LET row == values[NthWideRow(values, j)]
          IN  /\ items[j].name = row[1]
              /\ int_ok(row[2]) => items[j].price = int(row[2])
              /\ int_ok(row[3]) => items[j].role_id = int(row[3])
              /\ items[j].image_filename
                     = IF Len(row) >= 4 /\ Len(row[4]) > 0 THEN row[4] ELSE <<"None">>
              /\ items[j].description
                     = IF Len(row) >= 5 /\ Len(row[5]) > 0 THEN row[5]
                       ELSE <<"N", "o", " ", "d", "e", "s", "c", "r", "i", "p", "t",
                              "i", "o", "n", " ", "a", "v", "a", "i", "l", "a", "b",
                              "l", "e", ".">>

\* C13 as stated: get_items returns, in row order, exactly one item for each
\* row below the header that has at least 3 columns and none for the header
\* or a shorter row, image_filename None for a missing or empty 4th cell and
\* the description "No description available." for a missing or empty 5th.
C13_OneItemPerWideRow ==
    \A p \in Procs :
        GetItemsReturned(p) => ItemsMatchRows(h[p].items, items_sheet)

\* C13 amended: the same when the price and role_id of every row of at least
\* 3 columns are integers; when one of them is not, get_items returns no item.
C13_OneItemPerWideRowOfIntegers ==
    \A p \in Procs :
        GetItemsReturned(p)
        => IF HasBadRow(items_sheet)
           THEN h[p].items = <<>>
           ELSE ItemsMatchRows(h[p].items, items_sheet)

\* get_items has returned the seven items of the catalog that has a short
\* row and rows with missing and empty 4th and 5th cells.
C13_Witness ==
    \E p \in Procs :
        /\ GetItemsReturned(p)
        /\ items_sheet = Catalog
        /\ Len(h[p].items) = 7

-----------------------------------------------------------------------------
(* The balance command and the ledger.                                     *)

\* A balance command of p has got its answer ready or sent, and no other
\* invocation wrote the sheet since the command arrived.
BalanceAlone(p) ==
    /\ req[p].kind = "balance"
    /\ pc[p] \in {"send", "done"}
    /\ h[p].solo_req
    /\ ~h[p].faulted

-----------------------------------------------------------------------------
(* The success reply of a purchase.                                        *)

\* C15: a purchase click answers with the success message only when its
\* update_currency call wrote the lowered balance and returned True; no
\* success message goes out after a write that failed or returned False.
C15_SuccessMeansDebited ==
    \A p \in Procs :
        (pc[p] = "done" /\ status[p] = 200 /\ reply[p].msg = "success")
        => /\ h[p].returned = "update_currency"
           /\ h[p].updated

-----------------------------------------------------------------------------
(* Paging through a catalog that changes.                                  *)

\* C16: after a shop command and page-turn clicks on controls that were shown
\* enabled, with the Items sheet edited between a message and the next click,
\* every view sent has a page index p with 0 <= p <= total_pages - 1: the page
\* field shows no page number above total_pages and the view shows at least
\* one item.
C16_PageInRange ==
    \A p \in Procs :
        LET v == reply[p].view
        IN  (/\ pc[p] = "done"
             /\ status[p] = 200
             /\ v # NoView
             /\ req[p].kind = "page" => h[p].on_enabled)
            => /\ 0 <= v.page
               /\ v.page <= v.total_pages - 1
               /\ reply[p].page_field[1] <= reply[p].page_field[2]
               /\ v.buy # <<>>

====
